---- MODULE Spec2Model ----
(***************************************************************************)
(* One invocation of the blob-triggered function sensitive_data_processor  *)
(* (function_app.py): analyze_sensitive_data reads and decodes the blob,   *)
(* analyze_pii_phi submits it to the text-analytics service, polls, walks  *)
(* the result items, logs them and returns the redacted text or, from its  *)
(* catch-all handler, the failure dictionary; the orchestrator stores the  *)
(* returned value in the output binding.                                   *)
(*                                                                         *)
(* The service, the blob and the JSON serializer are the environment: the  *)
(* blob's bytes, whether a service call raises, which result item the      *)
(* paged iterator yields next and whether the record built from an item    *)
(* serializes are chosen nondeterministically.  The entity and relation     *)
(* projections (lines 77-83, 98-143) only build the record handed to       *)
(* log_structured_data; their content is carried by the item's             *)
(* `serializable` field, which says whether json.dumps accepts it.         *)
(***************************************************************************)
EXTENDS Integers, Sequences, FiniteSets, TLC

VARIABLES
    myblob,                  \* the input blob's raw bytes
    pc,                      \* position of the invocation
    document,                \* `document`: the one-element list of decoded text
    group,                   \* action groups the outer loop has entered
    seen,                    \* result items the inner loop has been handed, in order
    document_redacted_text,  \* the local of analyze_pii_phi (unbound until assigned)
    logs,                    \* records handed to the logging module, in order
    analysis_results,        \* value returned by analyze_pii_phi
    outputblob,              \* values passed to outputblob.set, in order
    raised,                  \* str(e) of the exception raised inside the try, or "none"
    escaped                  \* exception that left analyze_sensitive_data, or "none"

vars == <<myblob, pc, document, group, seen, document_redacted_text, logs,
          analysis_results, outputblob, raised, escaped>>

-----------------------------------------------------------------------------
(* Bounds *)

MaxBytes == 2       \* longest input blob, in bytes
MaxResults == 3     \* most result items the service yields in one invocation
MaxGroups == 2      \* most action groups the service yields in one invocation

-----------------------------------------------------------------------------
(* Input bytes and bytes.decode('utf-8') *)

\* 'A', the two bytes of U+00E9, and a byte that no UTF-8 sequence contains
ByteValues == {65, 195, 169, 255}

SeqsUpTo(S, n) == UNION {[1..k -> S] : k \in 0..n}

InputBlobs == SeqsUpTo(ByteValues, MaxBytes)

IsContinuation(b) == b >= 128 /\ b <= 191

RECURSIVE Utf8Valid(_)
Utf8Valid(bytes) ==
    IF bytes = <<>> THEN TRUE
    ELSE LET b == Head(bytes) IN
         IF b < 128 THEN Utf8Valid(Tail(bytes))
         ELSE IF b >= 194 /\ b <= 223
              THEN /\ Len(bytes) >= 2
                   /\ IsContinuation(bytes[2])
                   /\ Utf8Valid(Tail(Tail(bytes)))
              ELSE FALSE

RECURSIVE Utf8Decode(_)
Utf8Decode(bytes) ==
    IF bytes = <<>> THEN <<>>
    ELSE LET b == Head(bytes) IN
         IF b < 128 THEN <<b>> \o Utf8Decode(Tail(bytes))
         ELSE <<(b - 192) * 64 + (bytes[2] - 128)>> \o Utf8Decode(Tail(Tail(bytes)))

-----------------------------------------------------------------------------
(* Result items of the service *)

RedactedTexts == {"**** is at **** now", "seen by Dr. ****"}

NoError == [code |-> "", message |-> ""]

ServiceErrors == {[code |-> "InvalidDocument", message |-> "Document text is empty."]}

PiiItems ==
    [kind : {"PiiEntityRecognition"}, is_error : BOOLEAN, redacted_text : RedactedTexts,
     serializable : BOOLEAN, error : {NoError}]

HealthcareItems ==
    [kind : {"Healthcare"}, is_error : BOOLEAN, redacted_text : {""},
     serializable : BOOLEAN, error : {NoError}]

\* an item of another kind: the service's per-document error, or a kind the
\* classifier does not know
OtherItems ==
    [kind : {"DocumentError"}, is_error : {TRUE}, redacted_text : {""},
     serializable : {TRUE}, error : ServiceErrors]
    \cup
    [kind : {"EntityLinking"}, is_error : {FALSE}, redacted_text : {""},
     serializable : {TRUE}, error : {NoError}]

ResultItems == PiiItems \cup HealthcareItems \cup OtherItems

-----------------------------------------------------------------------------
(* Values and log records *)

Unbound == [bound |-> FALSE, value |-> ""]

Bound(text) == [bound |-> TRUE, value |-> text]

NoValue == [type |-> "none"]

StrValue(text) == [type |-> "str", text |-> text]

FailurePayload(message) == [type |-> "dict", error |-> message, status |-> "failed"]

IsFailurePayload(v) == v.type = "dict" /\ v.status = "failed"

IsRedactedText(v) == v.type = "str"

InfoLine(what) ==
    [level |-> "info", analysis_type |-> what, errors |-> FALSE, error |-> NoError, detail |-> ""]

\* log_structured_data: the record json.dumps serializes and logging.info emits
StructuredLog(message, errors) ==
    [level |-> "info", analysis_type |-> message, errors |-> errors, error |-> NoError,
     detail |-> "2023-09-01"]

ItemErrorLine(result) ==
    [level |-> "error", analysis_type |-> "item_error", errors |-> TRUE,
     error |-> result.error, detail |-> ""]

AnalysisErrorLine(message) ==
    [level |-> "error", analysis_type |-> "analysis_error", errors |-> TRUE,
     error |-> NoError, detail |-> message]

\* str(e) of the exceptions the environment and the interpreter raise
SubmitError == "submission failed"
PollError == "polling failed"
PagingError == "result page failed"
SerializeError == "Object is not JSON serializable"
UnboundError == "local variable 'document_redacted_text' referenced before assignment"

-----------------------------------------------------------------------------
(* The body of the inner loop, lines 74-160 *)

\* What a branch of the loop body does with `result`: whether line 75 assigns
\* the local, the records that reach the logging module, and str(e) of the
\* exception the branch raises ("none" when it completes).

\* log_structured_data: json.dumps raises on a record it cannot serialize,
\* before logging.info is reached
LogStructuredData(message, result) ==
    IF result.serializable
    THEN [emits |-> <<StructuredLog(message, result.is_error)>>, raises |-> "none"]
    ELSE [emits |-> <<>>, raises |-> SerializeError]

\* lines 75-94
PiiBranch(result) ==
    LET l == LogStructuredData("PII", result)
    IN  [assigns |-> TRUE, emits |-> l.emits, raises |-> l.raises]

\* lines 97-155
HealthcareBranch(result) ==
    LET l == LogStructuredData("PHI", result)
    IN  [assigns |-> FALSE, emits |-> l.emits, raises |-> l.raises]

\* ErrorBranch as it would be if an error item were raised instead of logged
ErrorBranchRaises(result) ==
    [assigns |-> FALSE, emits |-> <<>>, raises |-> result.error.message]

\* lines 157-160: logging.error with the item's code and message
ErrorBranch(result) ==
    [assigns |-> FALSE, emits |-> <<ItemErrorLine(result)>>, raises |-> "none"]

\* no branch of the chain is taken
Skipped == [assigns |-> FALSE, emits |-> <<>>, raises |-> "none"]

\* Classify as it would be if line 157 were an `if` of its own, not an `elif`
ClassifyErrorCheckedAlways(result) ==
    LET first == IF result.kind = "PiiEntityRecognition" THEN PiiBranch(result)
                 ELSE IF result.kind = "Healthcare" THEN HealthcareBranch(result)
                 ELSE Skipped
    IN  IF first.raises = "none" /\ result.is_error = TRUE
        THEN [first EXCEPT !.emits = @ \o <<ItemErrorLine(result)>>]
        ELSE first

\* the if / elif / elif chain of lines 74, 96 and 157
Classify(result) ==
    IF result.kind = "PiiEntityRecognition" THEN PiiBranch(result)
    ELSE IF result.kind = "Healthcare" THEN HealthcareBranch(result)
    ELSE IF result.is_error = TRUE THEN ErrorBranch(result)
    ELSE Skipped

\* Assigned as it would be if the first redacted text were kept
AssignedFirstWins(current, result) ==
    IF current.bound THEN current ELSE Bound(result.redacted_text)

\* line 75: document_redacted_text = result.redacted_text
Assigned(current, result) == Bound(result.redacted_text)

\* line 162: return document_redacted_text (NoValue: the name is unbound, and
\* reading it raises)
ReturnValue(local) == IF local.bound THEN StrValue(local.value) ELSE NoValue

-----------------------------------------------------------------------------
Init ==
    /\ myblob \in InputBlobs
    /\ pc = "Start"
    /\ document = <<>>
    /\ group = 0
    /\ seen = <<>>
    /\ document_redacted_text = Unbound
    /\ logs = <<>>
    /\ analysis_results = NoValue
    /\ outputblob = <<>>
    /\ raised = "none"
    /\ escaped = "none"

\* Except as it would be if the handler returned the text redacted so far
ExceptKeepsRedactedText(message) ==
    /\ raised' = message
    /\ logs' = Append(logs, AnalysisErrorLine(message))
    /\ analysis_results' = IF document_redacted_text.bound
                           THEN StrValue(document_redacted_text.value)
                           ELSE FailurePayload(message)
    /\ pc' = "Failed"

\* the except clause of analyze_pii_phi
Except(message) ==
    /\ raised' = message
    /\ logs' = Append(logs, AnalysisErrorLine(message))
    /\ analysis_results' = FailurePayload(message)
    /\ pc' = "Failed"

\* analyze_sensitive_data up to the call of analyze_pii_phi
Receive ==
    /\ pc = "Start"
    /\ logs' = Append(logs, InfoLine("start"))
    /\ IF Utf8Valid(myblob)
       THEN /\ document' = <<Utf8Decode(myblob)>>
            /\ pc' = "Received"
            /\ UNCHANGED escaped
       ELSE /\ escaped' = "UnicodeDecodeError"
            /\ pc' = "Crashed"
            /\ UNCHANGED document
    /\ UNCHANGED <<myblob, group, seen, document_redacted_text, analysis_results, outputblob,
                   raised>>

\* begin_analyze_actions returns a poller or raises
Submit ==
    /\ pc = "Received"
    /\ \E raises \in BOOLEAN :
          IF raises
          THEN Except(SubmitError)
          ELSE pc' = "Submitted" /\ UNCHANGED <<logs, analysis_results, raised>>
    /\ UNCHANGED <<myblob, document, group, seen, document_redacted_text, outputblob,
                   escaped>>

\* poller.result() returns the paged results or raises
Poll ==
    /\ pc = "Submitted"
    /\ \E raises \in BOOLEAN :
          IF raises
          THEN Except(PollError)
          ELSE pc' = "Classifying" /\ UNCHANGED <<logs, analysis_results, raised>>
    /\ UNCHANGED <<myblob, document, group, seen, document_redacted_text, outputblob,
                   escaped>>

\* the outer loop takes the next action group from the paged results
NextGroup ==
    /\ pc = "Classifying"
    /\ group < MaxGroups
    /\ group' = group + 1
    /\ UNCHANGED <<myblob, pc, document, seen, document_redacted_text, logs,
                   analysis_results, outputblob, raised, escaped>>

\* the inner loop takes the next result item and runs the loop body on it
ClassifyItem ==
    /\ pc = "Classifying"
    /\ group >= 1
    /\ Len(seen) < MaxResults
    /\ \E result \in ResultItems :
          LET c == Classify(result) IN
          /\ seen' = Append(seen, result)
          /\ document_redacted_text' =
                IF c.assigns THEN Assigned(document_redacted_text, result)
                ELSE document_redacted_text
          /\ IF c.raises = "none"
             THEN /\ logs' = logs \o c.emits
                  /\ UNCHANGED <<pc, analysis_results, raised>>
             ELSE Except(c.raises)
    /\ UNCHANGED <<myblob, document, group, outputblob, escaped>>

\* fetching the next page of results raises
PageRaise ==
    /\ pc = "Classifying"
    /\ Except(PagingError)
    /\ UNCHANGED <<myblob, document, group, seen, document_redacted_text, outputblob,
                   escaped>>

\* both loops are exhausted: line 162
Return ==
    /\ pc = "Classifying"
    /\ IF ReturnValue(document_redacted_text) # NoValue
       THEN /\ analysis_results' = ReturnValue(document_redacted_text)
            /\ pc' = "Classified"
            /\ UNCHANGED <<logs, raised>>
       ELSE Except(UnboundError)
    /\ UNCHANGED <<myblob, document, group, seen, document_redacted_text, outputblob,
                   escaped>>

\* line 40: outputblob.set(analysis_results)
Write ==
    /\ pc \in {"Classified", "Failed"}
    /\ outputblob' = Append(outputblob, analysis_results)
    /\ pc' = "Written"
    /\ UNCHANGED <<myblob, document, group, seen, document_redacted_text, logs,
                   analysis_results, raised, escaped>>

\* line 42
Complete ==
    /\ pc = "Written"
    /\ logs' = Append(logs, InfoLine("completed"))
    /\ pc' = "Done"
    /\ UNCHANGED <<myblob, document, group, seen, document_redacted_text,
                   analysis_results, outputblob, raised, escaped>>

Next ==
    \/ Receive
    \/ Submit
    \/ Poll
    \/ NextGroup
    \/ ClassifyItem
    \/ PageRaise
    \/ Return
    \/ Write
    \/ Complete

Spec == Init /\ [][Next]_vars
-----------------------------------------------------------------------------
(* Vocabulary of the properties *)

\* the invocation is over: it returned, or an exception left it
Ended == pc \in {"Done", "Crashed"}

\* analyze_pii_phi has returned a value
AnalysisReturned == analysis_results # NoValue

\* the service answered and its paged results were walked without a
\* transport failure
ResponseDelivered ==
    AnalysisReturned /\ raised \notin {SubmitError, PollError, PagingError}

CountLogs(type) == Cardinality({i \in DOMAIN logs : logs[i].analysis_type = type})

CountKind(kind) == Cardinality({i \in DOMAIN seen : seen[i].kind = kind})

IsErrorItem(r) == r.kind \notin {"PiiEntityRecognition", "Healthcare"} /\ r.is_error

\* a successful item of one of the two requested actions
IsSuccessItem(r) == r.kind \in {"PiiEntityRecognition", "Healthcare"} /\ ~r.is_error

\* a PiiResult that is no error and whose record the emitter can serialize
IsValidPii(r) == r.kind = "PiiEntityRecognition" /\ ~r.is_error /\ r.serializable

CountErrorItems == Cardinality({i \in DOMAIN seen : IsErrorItem(seen[i])})

AllSerializable == \A i \in DOMAIN seen : seen[i].serializable

PiiIndices == {i \in DOMAIN seen : seen[i].kind = "PiiEntityRecognition"}

MaxOf(S) == CHOOSE m \in S : \A n \in S : n <= m

LogsBefore(first, second) ==
    \E i, j \in DOMAIN logs : i < j /\ logs[i] = first /\ logs[j] = second

-----------------------------------------------------------------------------
(* C1 *)

\* C1: in every invocation the output sink is set exactly once before the
\* invocation ends, never twice, and the value set is the redacted text or the
\* failure payload.
C1_WrittenExactlyOnce ==
    /\ Len(outputblob) <= 1
    /\ Ended =>
          /\ Len(outputblob) = 1
          /\ IsRedactedText(outputblob[1]) \/ IsFailurePayload(outputblob[1])

(* C2 *)

\* C2: no exception leaves analyze_sensitive_data, whatever step fails.
C2_NothingEscapes == escaped = "none"

(* C3 *)

\* C3: once an exception has been raised during submission, polling or
\* classification, the invocation is in Failed or past it, the value returned
\* is the failure payload carrying the exception's message, the value written
\* is that payload, and no redacted text is ever written.
C3_ExceptionYieldsFailurePayload ==
    raised # "none" =>
        /\ pc \in {"Failed", "Written", "Done"}
        /\ analysis_results = FailurePayload(raised)
        /\ \A i \in DOMAIN outputblob : ~IsRedactedText(outputblob[i])
        /\ pc \in {"Written", "Done"} => outputblob = <<FailurePayload(raised)>>

\* a PiiResult was assigned and logged, a later item's log raised, and the
\* invocation ended having written the failure payload
C3_Witness ==
    /\ pc = "Done"
    /\ raised = SerializeError
    /\ document_redacted_text.bound
    /\ CountLogs("PII") = 1
    /\ outputblob = <<FailurePayload(SerializeError)>>

(* C4 *)

C5_PartialFailureNotFailed ==
    ( /\ ResponseDelivered
      /\ AllSerializable
      /\ \E i \in DOMAIN seen : IsErrorItem(seen[i])
      /\ \E i \in DOMAIN seen : IsSuccessItem(seen[i]) )
    =>
    /\ ~IsFailurePayload(analysis_results)
    /\ CountLogs("item_error") = CountErrorItems

(* C6 *)

\* C6: when the response holds a HealthcareResult and no PiiResult, or a
\* PiiResult and no HealthcareResult, no record of the missing type is logged,
\* the record of the present type is, and the invocation does not end with
\* the failure payload.
C6_MissingResultNotAnError ==
    ( /\ ResponseDelivered
      /\ AllSerializable
      /\ \/ CountKind("PiiEntityRecognition") = 0 /\ CountKind("Healthcare") > 0
         \/ CountKind("Healthcare") = 0 /\ CountKind("PiiEntityRecognition") > 0 )
    =>
    /\ CountLogs("PII") = CountKind("PiiEntityRecognition")
    /\ CountLogs("PHI") = CountKind("Healthcare")
    /\ ~IsFailurePayload(analysis_results)

(* C7 *)

\* C7: a record that fails to serialize does not abort the analysis: the
\* serializer's exception is never the analysis failure, and once the response
\* holding a PiiResult has been walked the value returned is redacted text.
C7_LogFailureNotPropagated ==
    (\E i \in DOMAIN seen : ~seen[i].serializable)
    =>
    /\ raised # SerializeError
    /\ (ResponseDelivered /\ PiiIndices # {}) => IsRedactedText(analysis_results)

(* C8 *)

\* C8: for a blob that is not valid UTF-8, the invocation ends having written
\* the failure payload with a non-empty error message, nothing was submitted
\* to the service and no structured record was logged.
C8_NonUtf8YieldsFailurePayload ==
    (~Utf8Valid(myblob) /\ Ended)
    =>
    /\ Len(outputblob) = 1
    /\ IsFailurePayload(outputblob[1])
    /\ outputblob[1].error # ""
    /\ document = <<>>
    /\ seen = <<>>
    /\ CountLogs("PII") = 0
    /\ CountLogs("PHI") = 0

(* C9 *)

\* the records one pass of the loop body added to the log
Emitted == SubSeq(logs', Len(logs) + 1, Len(logs'))

\* the one outcome the kind of `result` calls for
OutcomeOf(result) ==
    IF result.kind = "PiiEntityRecognition" THEN <<StructuredLog("PII", result.is_error)>>
    ELSE IF result.kind = "Healthcare" THEN <<StructuredLog("PHI", result.is_error)>>
    ELSE IF result.is_error THEN <<ItemErrorLine(result)>>
    ELSE <<>>

ItemRecords(records) ==
    {i \in DOMAIN records : records[i].analysis_type \in {"PII", "PHI", "item_error"}}

C9_Step ==
    Len(seen') = Len(seen) + 1 =>
        /\ Cardinality(ItemRecords(Emitted)) <= 1
        /\ raised' = "none" => Emitted = OutcomeOf(seen'[Len(seen')])

C9_Counts ==
    (AnalysisReturned /\ raised = "none") =>
        /\ CountLogs("PII") = CountKind("PiiEntityRecognition")
        /\ CountLogs("PHI") = CountKind("Healthcare")
        /\ CountLogs("item_error") = CountErrorItems

C10_LastPiiWins ==
    (AnalysisReturned /\ raised = "none" /\ PiiIndices # {})
    =>
    LET last == seen[MaxOf(PiiIndices)].redacted_text IN
    /\ analysis_results = StrValue(last)
    /\ pc \in {"Written", "Done"} => outputblob = <<StrValue(last)>>
    /\ \A i \in PiiIndices, k \in DOMAIN outputblob :
          seen[i].redacted_text # last => outputblob[k] # StrValue(seen[i].redacted_text)

\* two PiiResults with different redacted texts, and the second one's was written
C10_Witness ==
    /\ pc = "Done"
    /\ raised = "none"
    /\ \E i, j \in PiiIndices :
          /\ i < j
          /\ j = MaxOf(PiiIndices)
          /\ seen[i].redacted_text # seen[j].redacted_text
          /\ outputblob = <<StrValue(seen[j].redacted_text)>>
====
